---- MODULE Spec2Model ----
(***************************************************************************)
(* Model of the filesystem operation layer of tauri-explorer's Python      *)
(* backend: domain/file_entry.py (listing), domain/file_ops.py (create,    *)
(* rename, delete, copy, move) and the request layer of api/routes/files.py *)
(* that builds their arguments.                                            *)
(*                                                                         *)
(* A string is a sequence of one-character strings, a path is the sequence *)
(* of its components below the root "/" (pathlib's parts), and the         *)
(* filesystem is a function from the paths that exist to their nodes.      *)
(* Symbolic links appear in the searched trees only; permissions are not   *)
(* modelled.                                                               *)
(***************************************************************************)
EXTENDS Integers, Sequences, FiniteSets, TLC

VARIABLES fs, last, steps, procs, walk

vars == <<fs, last, steps, procs, walk>>

(***************************************************************************)
(* Bounds of the model.                                                    *)
(***************************************************************************)
\* Number of calls made after the initial filesystem.
MaxOps == 1
\* Depth at which a copy of a directory into its own subtree gives up
\* (stands for the platform's path-length / recursion limit).
RegressDepth == 4

(***************************************************************************)
(* Characters and strings.                                                 *)
(***************************************************************************)
\* ord(): the code points of the characters the model uses.
Ord(c) ==
  CASE c = " " -> 32 [] c = "(" -> 40 [] c = ")" -> 41 [] c = "-" -> 45
    [] c = "." -> 46 [] c = "/" -> 47
    [] c = "0" -> 48 [] c = "1" -> 49 [] c = "2" -> 50 [] c = "3" -> 51
    [] c = "4" -> 52 [] c = "5" -> 53 [] c = "6" -> 54 [] c = "7" -> 55
    [] c = "8" -> 56 [] c = "9" -> 57
    [] c = "C" -> 67 [] c = "Z" -> 90
    [] c = "a" -> 97 [] c = "c" -> 99 [] c = "d" -> 100 [] c = "o" -> 111
    [] c = "p" -> 112 [] c = "t" -> 116 [] c = "y" -> 121 [] c = "z" -> 122

\* str.lower() on one character.
LowerChar(c) ==
  CASE c = "C" -> "c" [] c = "Z" -> "z" [] OTHER -> c

\* str.lower()
Lower(s) == [i \in 1..Len(s) |-> LowerChar(s[i])]

\* s < t for Python strings: lexicographic by code point.
RECURSIVE StrLess(_, _)
StrLess(s, t) ==
  IF t = <<>> THEN FALSE
  ELSE IF s = <<>> THEN TRUE
  ELSE IF Ord(s[1]) # Ord(t[1]) THEN Ord(s[1]) < Ord(t[1])
  ELSE StrLess(Tail(s), Tail(t))

\* f"{n}" for a non-negative integer: its decimal digits.
DigitChar(d) ==
  CASE d = 0 -> "0" [] d = 1 -> "1" [] d = 2 -> "2" [] d = 3 -> "3"
    [] d = 4 -> "4" [] d = 5 -> "5" [] d = 6 -> "6" [] d = 7 -> "7"
    [] d = 8 -> "8" [] d = 9 -> "9"

RECURSIVE FormatInt(_)
FormatInt(n) ==
  IF n < 10 THEN <<DigitChar(n)>>
  ELSE Append(FormatInt(n \div 10), DigitChar(n % 10))

\* The names the model's requests and initial filesystems use.
NameAT == <<"a", ".", "t">>
NameD == <<"d">>
NameZ == <<"Z">>
NameDZ == <<"d", "/", "Z">>
NameDT == <<"d", ".", "t">>
NameADT == <<"a", ".", "d", ".", "t">>
NameT == <<"t">>
EmptyStr == <<>>

(***************************************************************************)
(* pathlib: paths as sequences of components.                              *)
(***************************************************************************)
Root == <<>>

\* Path.name: the final component, "" for the root.
PathName(p) == IF p = <<>> THEN EmptyStr ELSE p[Len(p)]

\* Path.parent: the root is its own parent.
PathParent(p) == IF p = <<>> THEN <<>> ELSE SubSeq(p, 1, Len(p) - 1)

\* The components of a string: split on "/", empty and "." components dropped.
RECURSIVE SplitParts(_, _, _)
SplitParts(s, cur, acc) ==
  LET flush == IF cur = <<>> \/ cur = <<".">> THEN acc ELSE Append(acc, cur)
  IN IF s = <<>> THEN flush
     ELSE IF s[1] = "/" THEN SplitParts(Tail(s), <<>>, flush)
     ELSE SplitParts(Tail(s), Append(cur, s[1]), acc)

\* Path.__truediv__: p / s. An absolute s replaces p.
JoinPath(p, s) ==
  IF s # <<>> /\ s[1] = "/" THEN SplitParts(s, <<>>, <<>>)
  ELSE p \o SplitParts(s, <<>>, <<>>)

\* str(path.absolute()) of an absolute path.
RECURSIVE PathStr(_)
PathStr(p) ==
  IF p = <<>> THEN <<"/">>
  ELSE IF Len(p) = 1 THEN <<"/">> \o p[1]
  ELSE PathStr(PathParent(p)) \o <<"/">> \o p[Len(p)]

\* p is src or lies below src.
IsPrefix(src, p) == Len(src) <= Len(p) /\ SubSeq(p, 1, Len(src)) = src

IsStrictPrefix(src, p) == Len(src) < Len(p) /\ IsPrefix(src, p)

\* The part of p below src.
Suffix(src, p) == SubSeq(p, Len(src) + 1, Len(p))

(***************************************************************************)
(* The filesystem.                                                         *)
(***************************************************************************)
DirNode == [kind |-> "directory", data |-> 0]

FileNode(c) == [kind |-> "file", data |-> c]

\* Path.exists()
Exists(f, p) == p \in DOMAIN f

\* Path.is_dir()
IsDir(f, p) == p \in DOMAIN f /\ f[p].kind = "directory"

\* A symbolic link to the path t.
LinkNode(t) == [kind |-> "link", data |-> t]

\* The path p with the symbolic links on it followed, hops links at most;
\* a path that exists nowhere where the links do not end.
RECURSIVE Resolve(_, _, _)
Resolve(f, p, hops) ==
  LET links == {k \in 1..Len(p) : SubSeq(p, 1, k) \in DOMAIN f
                                    /\ f[SubSeq(p, 1, k)].kind = "link"}
      first == CHOOSE k \in links : \A j \in links : k <= j
  IN IF links = {} THEN p
     ELSE IF hops = 0 THEN <<EmptyStr>>
     ELSE Resolve(f, f[SubSeq(p, 1, first)].data \o SubSeq(p, first + 1, Len(p)),
                  hops - 1)

\* os.stat's view of p: where p leads once its links are followed.
Real(f, p) == Resolve(f, p, Cardinality(DOMAIN f))

\* st_size of a file: the model identifies a content with its length.
StSize(node) == node.data

\* Every node but the root lies in a directory.
WellFormed(f) ==
  /\ Root \in DOMAIN f /\ f[Root].kind = "directory"
  /\ \A p \in DOMAIN f : p # Root => IsDir(f, PathParent(p))

\* The paths of the subtree at p (p included).
Subtree(f, p) == {q \in DOMAIN f : IsPrefix(p, q)}

\* The filesystem without the paths in gone.
Without(f, gone) == [q \in (DOMAIN f) \ gone |-> f[q]]

\* The filesystem with node n at path p.
WithNode(f, p, n) == [q \in (DOMAIN f) \cup {p} |-> IF q = p THEN n ELSE f[q]]

\* The subtree at src duplicated at dst, read from the snapshot f.
Grafted(f, src, dst) ==
  LET new == {dst \o Suffix(src, q) : q \in Subtree(f, src)}
  IN [q \in (DOMAIN f) \cup new |->
        IF q \in new THEN f[src \o Suffix(dst, q)] ELSE f[q]]

\* The subtree at src moved to dst.
Relocated(f, src, dst) == Without(Grafted(f, src, dst), Subtree(f, src))

(***************************************************************************)
(* FileEntry and results.                                                  *)
(***************************************************************************)
\* The FileEntry the operations build from the node at p.
MakeEntry(f, p) ==
  [name |-> PathName(p),
   path |-> PathStr(p),
   kind |-> IF IsDir(f, p) THEN "directory" ELSE "file",
   size |-> IF IsDir(f, p) THEN 0 ELSE StSize(f[p])]

\* An operation's outcome: the error kind ("ok" on success), the filesystem
\* it leaves, and what it returns.
Failed(err, f) == [res |-> err, fs |-> f, ret |-> <<>>]

Done(f, entries) == [res |-> "ok", fs |-> f, ret |-> entries]

\* The Python exception class of an error kind.
ExceptionType(err) ==
  CASE err \in {"NotFound", "ParentNotFound", "NotADirectory"} -> "FileNotFoundError"
    [] err \in {"AlreadyExists", "TooManyCopies"} -> "FileExistsError"
    [] err = "InvalidName" -> "ValueError"
    [] err = "OtherError" -> "OSError"
    [] OTHER -> "none"

(***************************************************************************)
(* domain/file_ops.py                                                      *)
(***************************************************************************)
\* Mutant: the missing parent is created before its absence is reported.
create_directory_MakesParent(f, path) ==
  IF PathName(path) = EmptyStr THEN Failed("InvalidName", f)
  ELSE IF Exists(f, path) THEN Failed("AlreadyExists", f)
  ELSE IF ~Exists(f, PathParent(path))
         THEN Failed("ParentNotFound", WithNode(f, PathParent(path), DirNode))
  ELSE IF ~IsDir(f, PathParent(path)) THEN Failed("OtherError", f)
  ELSE LET g == WithNode(f, path, DirNode)
       IN Done(g, <<[name |-> PathName(path), path |-> PathStr(path),
                     kind |-> "directory", size |-> 0]>>)

create_directory(f, path) ==
  IF PathName(path) = EmptyStr THEN Failed("InvalidName", f)
  ELSE IF Exists(f, path) THEN Failed("AlreadyExists", f)
  ELSE IF ~Exists(f, PathParent(path)) THEN Failed("ParentNotFound", f)
  \* path.mkdir() below a regular file: NotADirectoryError
  ELSE IF ~IsDir(f, PathParent(path)) THEN Failed("OtherError", f)
  ELSE LET g == WithNode(f, path, DirNode)
       IN Done(g, <<[name |-> PathName(path), path |-> PathStr(path),
                     kind |-> "directory", size |-> 0]>>)

\* Mutant: no check of the target, so os.rename replaces what is there.
rename_entry_Overwrite(f, source, new_name) ==
  IF new_name = EmptyStr THEN Failed("InvalidName", f)
  ELSE IF ~Exists(f, source) THEN Failed("NotFound", f)
  ELSE LET target == JoinPath(PathParent(source), new_name)
       IN IF ~Exists(f, PathParent(target)) THEN Failed("NotFound", f)
          ELSE IF ~IsDir(f, PathParent(target)) THEN Failed("OtherError", f)
          ELSE IF IsDir(f, source) /\ IsPrefix(source, target)
                 THEN Failed("OtherError", f)
          ELSE LET g == Relocated(Without(f, Subtree(f, target) \ Subtree(f, source)),
                                  source, target)
               IN Done(g, <<MakeEntry(g, target)>>)

\* Mutant: the source is looked up before the new name is checked.
rename_entry_SourceFirst(f, source, new_name) ==
  IF ~Exists(f, source) THEN Failed("NotFound", f)
  ELSE IF new_name = EmptyStr THEN Failed("InvalidName", f)
  ELSE LET target == JoinPath(PathParent(source), new_name)
       IN IF Exists(f, target) THEN Failed("AlreadyExists", f)
          ELSE IF ~Exists(f, PathParent(target)) THEN Failed("NotFound", f)
          ELSE IF ~IsDir(f, PathParent(target)) THEN Failed("OtherError", f)
          ELSE IF IsDir(f, source) /\ IsPrefix(source, target)
                 THEN Failed("OtherError", f)
          ELSE LET g == Relocated(f, source, target)
               IN Done(g, <<MakeEntry(g, target)>>)

rename_entry(f, source, new_name) ==
  IF new_name = EmptyStr THEN Failed("InvalidName", f)
  ELSE IF ~Exists(f, source) THEN Failed("NotFound", f)
  ELSE LET target == JoinPath(PathParent(source), new_name)
       IN IF Exists(f, target) THEN Failed("AlreadyExists", f)
          \* source.rename(target): os.rename's own failures
          ELSE IF ~Exists(f, PathParent(target)) THEN Failed("NotFound", f)
          ELSE IF ~IsDir(f, PathParent(target)) THEN Failed("OtherError", f)
          ELSE IF IsDir(f, source) /\ IsPrefix(source, target)
                 THEN Failed("OtherError", f)
          ELSE LET g == Relocated(f, source, target)
               IN Done(g, <<MakeEntry(g, target)>>)

\* Mutant: a directory is removed without its contents.
delete_entry_TopOnly(f, path) ==
  IF ~Exists(f, path) THEN Failed("NotFound", f)
  ELSE Done(Without(f, {path}), <<>>)

delete_entry(f, path) ==
  IF ~Exists(f, path) THEN Failed("NotFound", f)
  ELSE IF IsDir(f, path)
         THEN \* shutil.rmtree(path)
              Done(Without(f, Subtree(f, path)), <<>>)
  ELSE \* path.unlink()
       Done(Without(f, {path}), <<>>)

\* The safety limit of the copy-name search.
COPY_LIMIT == 1000

CopyWord == <<" ", "-", " ", "C", "o", "p", "y">>

\* "." in source_name
HasDot(s) == \E i \in 1..Len(s) : s[i] = "."

\* The index source_name.rsplit(".", 1) splits at: the last ".".
LastDot(s) ==
  CHOOSE i \in 1..Len(s) : s[i] = "." /\ \A j \in (i + 1)..Len(s) : s[j] # "."

\* base_name of _generate_copy_name
CopyBase(source_name, is_directory) ==
  IF is_directory \/ ~HasDot(source_name) THEN source_name
  ELSE SubSeq(source_name, 1, LastDot(source_name) - 1)

\* Mutant: a directory's name is split at its last "." like a file's.
CopyExt_Directories(source_name, is_directory) ==
  IF ~HasDot(source_name) THEN EmptyStr
  ELSE <<".">> \o SubSeq(source_name, LastDot(source_name) + 1, Len(source_name))

\* extension of _generate_copy_name
CopyExt(source_name, is_directory) ==
  IF is_directory \/ ~HasDot(source_name) THEN EmptyStr
  ELSE <<".">> \o SubSeq(source_name, LastDot(source_name) + 1, Len(source_name))

\* Mutant: the numbered names start one too high.
NumberedCopyName_OffByOne(base, ext, counter) ==
  base \o CopyWord \o <<" ", "(">> \o FormatInt(counter + 1) \o <<")">> \o ext

\* f"{base_name} - Copy ({counter}){extension}"
NumberedCopyName(base, ext, counter) ==
  base \o CopyWord \o <<" ", "(">> \o FormatInt(counter) \o <<")">> \o ext

\* Mutant: the search gives up one candidate early.
SafetyLimitHit_Early(counter) == counter >= COPY_LIMIT

\* if counter > 1000: raise FileExistsError("Too many copies exist")
SafetyLimitHit(counter) == counter > COPY_LIMIT

\* The iterations of the while loop of _generate_copy_name from counter on,
\* handed back at counter = pause so that the loop can be run in stretches
\* (an evaluation a thousand calls deep exhausts TLC's stack).
RECURSIVE CopyNameLoop(_, _, _, _, _, _)
CopyNameLoop(f, dest_dir, base, ext, counter, pause) ==
  LET target == JoinPath(dest_dir, NumberedCopyName(base, ext, counter))
  IN IF ~Exists(f, target) THEN [state |-> "return", target |-> target, counter |-> counter]
     ELSE IF SafetyLimitHit(counter + 1)
            THEN [state |-> "raise", target |-> <<>>, counter |-> counter + 1]
     ELSE IF counter + 1 >= pause
            THEN [state |-> "loop", target |-> <<>>, counter |-> counter + 1]
     ELSE CopyNameLoop(f, dest_dir, base, ext, counter + 1, pause)

\* The while loop of _generate_copy_name, entered with counter.
RECURSIVE CopyNameWhile(_, _, _, _, _)
CopyNameWhile(f, dest_dir, base, ext, counter) ==
  LET r == CopyNameLoop(f, dest_dir, base, ext, counter, counter + 40)
  IN IF r.state = "loop" THEN CopyNameWhile(f, dest_dir, base, ext, r.counter)
     ELSE [ok |-> r.state = "return", target |-> r.target]

_generate_copy_name(f, dest_dir, source_name, is_directory) ==
  LET base == CopyBase(source_name, is_directory)
      ext == CopyExt(source_name, is_directory)
      target == JoinPath(dest_dir, base \o CopyWord \o ext)
  IN IF ~Exists(f, target) THEN [ok |-> TRUE, target |-> target]
     ELSE CopyNameWhile(f, dest_dir, base, ext, 2)

\* shutil.copytree of a directory into its own subtree: every level lists a
\* directory that already holds the copy in progress, so the copy nests until
\* the platform gives up; what was created stays.
RECURSIVE Regress(_, _, _)
Regress(f, src, dst) ==
  LET new == {q \in {dst \o Suffix(src, p) : p \in Subtree(f, src)} :
                q \notin DOMAIN f /\ Len(q) <= RegressDepth}
  IN IF new = {} THEN f
     ELSE Regress([q \in (DOMAIN f) \cup new |->
                     IF q \in new THEN f[src \o Suffix(dst, q)] ELSE f[q]],
                  src, dst)

\* Mutant: only the top directory is made, without its contents.
copytree_TopOnly(f, source, target) ==
  IF ~IsDir(f, PathParent(target)) THEN Failed("OtherError", f)
  ELSE Done(WithNode(f, target, DirNode), <<>>)

\* os.makedirs of the missing directories above p; ok is FALSE where a
\* regular file stands in the way.
MakeParents(f, p) ==
  LET above == {SubSeq(p, 1, k) : k \in 0..(Len(p) - 1)}
  IN [ok |-> \A q \in above : Exists(f, q) => IsDir(f, q),
      fs |-> [q \in (DOMAIN f) \cup above |-> IF q \in DOMAIN f THEN f[q] ELSE DirNode]]

\* shutil.copytree(source, target)
copytree(f, source, target) ==
  IF ~Exists(f, source) THEN Failed("NotFound", f)
  ELSE IF ~IsDir(f, source) THEN Failed("OtherError", f)
  \* os.makedirs(dst): the target is there already
  ELSE IF Exists(f, target) THEN Failed("AlreadyExists", f)
  ELSE IF ~MakeParents(f, target).ok THEN Failed("OtherError", f)
  ELSE IF ~Exists(f, PathParent(target))
         THEN Done(Grafted(MakeParents(f, target).fs, source, target), <<>>)
  ELSE IF IsStrictPrefix(source, PathParent(target))
         THEN Failed("OtherError", Regress(WithNode(f, target, DirNode), source, target))
  ELSE Done(Grafted(f, source, target), <<>>)

\* shutil.copy2(source, target): a target that is a directory receives the
\* file under the source's name, a regular file at the destination is
\* overwritten.
copy2(f, source, target) ==
  LET real_dst == IF IsDir(f, target) THEN Append(target, PathName(source)) ELSE target
  IN IF ~Exists(f, source) THEN Failed("NotFound", f)
     ELSE IF IsDir(f, source) \/ IsDir(f, real_dst) THEN Failed("OtherError", f)
     ELSE IF ~Exists(f, PathParent(real_dst)) THEN Failed("NotFound", f)
     ELSE IF ~IsDir(f, PathParent(real_dst)) THEN Failed("OtherError", f)
     ELSE Done(WithNode(f, real_dst, f[source]), <<>>)

\* Mutant: a collision is an error, as for move.
copy_entry_Strict(f, source, dest_dir) ==
  IF ~Exists(f, source) THEN Failed("NotFound", f)
  ELSE IF ~Exists(f, dest_dir) THEN Failed("NotFound", f)
  ELSE LET target == JoinPath(dest_dir, PathName(source))
       IN IF Exists(f, target) THEN Failed("AlreadyExists", f)
          ELSE LET r == IF IsDir(f, source) THEN copytree(f, source, target)
                        ELSE copy2(f, source, target)
               IN IF r.res # "ok" THEN r
                  ELSE Done(r.fs, <<MakeEntry(r.fs, target)>>)

copy_entry(f, source, dest_dir) ==
  IF ~Exists(f, source) THEN Failed("NotFound", f)
  ELSE IF ~Exists(f, dest_dir) THEN Failed("NotFound", f)
  ELSE LET plain == JoinPath(dest_dir, PathName(source))
           gen == IF Exists(f, plain)
                    THEN _generate_copy_name(f, dest_dir, PathName(source),
                                             IsDir(f, source))
                    ELSE [ok |-> TRUE, target |-> plain]
       IN IF ~gen.ok THEN Failed("TooManyCopies", f)
          ELSE LET r == IF IsDir(f, source) THEN copytree(f, source, gen.target)
                        ELSE copy2(f, source, gen.target)
               IN IF r.res # "ok" THEN r
                  ELSE Done(r.fs, <<MakeEntry(r.fs, gen.target)>>)

\* os.rename(source, target): a regular file replaces a regular file, a
\* directory replaces an empty directory.
os_rename(f, source, target) ==
  IF ~Exists(f, source) \/ ~Exists(f, PathParent(target)) THEN Failed("NotFound", f)
  ELSE IF ~IsDir(f, PathParent(target)) THEN Failed("OtherError", f)
  ELSE IF source = target THEN Done(f, <<>>)
  ELSE IF IsDir(f, source) /\ IsPrefix(source, target) THEN Failed("OtherError", f)
  ELSE IF ~Exists(f, target) THEN Done(Relocated(f, source, target), <<>>)
  ELSE IF IsDir(f, source) # IsDir(f, target) THEN Failed("OtherError", f)
  ELSE IF Subtree(f, target) # {target} THEN Failed("OtherError", f)
  ELSE Done(Relocated(Without(f, {target}), source, target), <<>>)

\* shutil.move(str(source), str(target)): a target that is a directory
\* receives the source under its own name; where os.rename fails the source
\* is copied and then removed.
shutil_move(f, source, target) ==
  LET real_dst == IF IsDir(f, target) THEN Append(target, PathName(source)) ELSE target
      renamed == os_rename(f, source, real_dst)
  IN IF IsDir(f, target) /\ source = target THEN Done(f, <<>>)
     ELSE IF IsDir(f, target) /\ Exists(f, real_dst) THEN Failed("OtherError", f)
     ELSE IF renamed.res = "ok" THEN renamed
     ELSE IF IsDir(f, source)
            THEN IF IsPrefix(source, real_dst) THEN Failed("OtherError", f)
                 ELSE LET copied == copytree(f, source, real_dst)
                      IN IF copied.res # "ok" THEN copied
                         ELSE Done(Without(copied.fs, Subtree(f, source)), <<>>)
     ELSE LET copied == copy2(f, source, real_dst)
          IN IF copied.res # "ok" THEN copied
             ELSE Done(Without(copied.fs, {source}), <<>>)

\* Mutant: no check of the target, so the move replaces what is there.
move_entry_Overwrite(f, source, dest_dir) ==
  IF ~Exists(f, source) THEN Failed("NotFound", f)
  ELSE IF ~Exists(f, dest_dir) THEN Failed("NotFound", f)
  ELSE LET target == JoinPath(dest_dir, PathName(source))
           r == shutil_move(Without(f, Subtree(f, target) \ Subtree(f, source)),
                            source, target)
       IN IF r.res # "ok" THEN r
          ELSE Done(r.fs, <<MakeEntry(r.fs, target)>>)

move_entry(f, source, dest_dir) ==
  IF ~Exists(f, source) THEN Failed("NotFound", f)
  ELSE IF ~Exists(f, dest_dir) THEN Failed("NotFound", f)
  ELSE LET target == JoinPath(dest_dir, PathName(source))
       IN IF Exists(f, target) THEN Failed("AlreadyExists", f)
          ELSE LET r == shutil_move(f, source, target)
               IN IF r.res # "ok" THEN r
                  ELSE Done(r.fs, <<MakeEntry(r.fs, target)>>)

(***************************************************************************)
(* domain/file_entry.py                                                    *)
(***************************************************************************)
\* The immediate children of a directory: what path.iterdir() yields, in
\* an order the platform chooses.
Children(f, path) == {q \in DOMAIN f : q # Root /\ PathParent(q) = path}

\* The orders in which iterdir() may yield the set S.
Orders(S) ==
  {o \in [1..Cardinality(S) -> S] : \A i, j \in 1..Cardinality(S) : o[i] = o[j] => i = j}

\* Mutant: the names are compared as they are, upper case before lower.
KeyLess_CaseSensitive(e1, e2) ==
  LET k1 == e1.kind # "directory"
      k2 == e2.kind # "directory"
  IN IF k1 # k2 THEN k2
     ELSE StrLess(e1.name, e2.name)

\* key=lambda e: (e.kind != "directory", e.name.lower()), compared as tuples
KeyLess(e1, e2) ==
  LET k1 == e1.kind # "directory"
      k2 == e2.kind # "directory"
  IN IF k1 # k2 THEN k2
     ELSE StrLess(Lower(e1.name), Lower(e2.name))

\* e inserted into the sorted sequence s behind every entry whose key is
\* not greater: sorted() is stable.
RECURSIVE InsertByKey(_, _)
InsertByKey(s, e) ==
  IF s = <<>> THEN <<e>>
  ELSE IF KeyLess(e, s[1]) THEN <<e>> \o s
  ELSE <<s[1]>> \o InsertByKey(Tail(s), e)

\* sorted(entries, key=...)
RECURSIVE SortEntries(_)
SortEntries(entries) ==
  IF entries = <<>> THEN <<>>
  ELSE InsertByKey(SortEntries(SubSeq(entries, 1, Len(entries) - 1)),
                   entries[Len(entries)])

\* The entries of the for loop: one per item whose stat() succeeds, in the
\* order of items; an item whose stat() raises is skipped (continue).
RECURSIVE StatEntries(_, _, _)
StatEntries(f, items, failing) ==
  IF items = <<>> THEN <<>>
  ELSE IF items[1] \in failing THEN StatEntries(f, Tail(items), failing)
  ELSE <<MakeEntry(f, items[1])>> \o StatEntries(f, Tail(items), failing)

\* Mutant: a regular file is listed as an empty directory.
list_directory_FileAsEmpty(f, path, items, failing) ==
  IF ~Exists(f, path) THEN Failed("NotADirectory", f)
  ELSE Done(f, SortEntries(StatEntries(f, items, failing)))

\* Mutant: a child whose stat() fails aborts the listing.
list_directory_Abort(f, path, items, failing) ==
  IF ~Exists(f, path) \/ ~IsDir(f, path) THEN Failed("NotADirectory", f)
  ELSE IF \E i \in 1..Len(items) : items[i] \in failing THEN Failed("OtherError", f)
  ELSE Done(f, SortEntries(StatEntries(f, items, failing)))

\* list_directory(path): items is the order iterdir() yields the children in,
\* failing the children whose stat() raises PermissionError or OSError.
list_directory(f, path, items, failing) ==
  IF ~Exists(f, path) \/ ~IsDir(f, path) THEN Failed("NotADirectory", f)
  ELSE Done(f, SortEntries(StatEntries(f, items, failing)))

(***************************************************************************)
(* api/routes/files.py: the request layer                                  *)
(***************************************************************************)
\* POST /mkdir: Path(request.path) / request.name, then create_directory
mkdir(f, parent, name) == create_directory(f, JoinPath(parent, name))

(***************************************************************************)
(* The state machine: one call per step on the live filesystem.            *)
(***************************************************************************)
\* The initial filesystems: every tree over these nodes.
InitNodes ==
  <<NameD>> :> DirNode @@ <<NameD, NameAT>> :> FileNode(1) @@
  <<NameD, NameD>> :> DirNode @@ <<NameD, NameZ>> :> FileNode(2) @@
  <<NameD, NameD, NameD>> :> DirNode @@
  <<NameAT>> :> FileNode(2) @@ <<NameZ>> :> DirNode @@
  Root :> DirNode

InitTrees ==
  {f \in {[p \in S \cup {Root} |-> InitNodes[p]] : S \in SUBSET (DOMAIN InitNodes)} :
     WellFormed(f)}

\* Paths a request may name: those that exist and some that may not.
ProbePaths == {<<NameAT>>, <<NameZ>>, <<NameD, NameZ>>, <<NameAT, NameD>>}

PathInputs(f) == (DOMAIN f) \cup ProbePaths

\* The node a request renames, deletes, copies or moves lies below the root.
SourceInputs(f) == PathInputs(f) \ {Root}

\* Names a request may give.
NameInputs == {EmptyStr, NameD, NameZ, NameAT, NameDZ}

NoCall == [op |-> "init", src |-> <<>>, dst |-> <<>>, name |-> <<>>,
           res |-> "ok", ret |-> <<>>, extra |-> <<>>]

\* One call served: its arguments, what else the platform decided during it
\* (extra), its outcome and the filesystem before it.
Served(op, src, dst, name, extra, r) ==
  /\ steps < MaxOps
  /\ steps' = steps + 1
  /\ fs' = r.fs
  /\ last' = [op |-> op, src |-> src, dst |-> dst, name |-> name,
              res |-> r.res, ret |-> r.ret, extra |-> extra, pre |-> fs]
  /\ UNCHANGED <<procs, walk>>

Call(op, src, dst, name, r) == Served(op, src, dst, name, <<>>, r)

Init ==
  /\ fs \in InitTrees
  /\ last = NoCall @@ [pre |-> fs]
  /\ steps = 0
  /\ procs = <<>>
  /\ walk = <<>>

ListDirectory ==
  \E path \in PathInputs(fs) :
    \E items \in Orders(Children(fs, path)), failing \in SUBSET Children(fs, path) :
      Served("list_directory", path, <<>>, <<>>, failing,
             list_directory(fs, path, items, failing))

CreateDirectory ==
  \E path \in PathInputs(fs) :
    Call("create_directory", path, <<>>, <<>>, create_directory(fs, path))

Mkdir ==
  \E parent \in PathInputs(fs), name \in NameInputs :
    Call("mkdir", parent, <<>>, name, mkdir(fs, parent, name))

Rename ==
  \E source \in SourceInputs(fs), new_name \in NameInputs :
    Call("rename", source, <<>>, new_name, rename_entry(fs, source, new_name))

Delete ==
  \E path \in SourceInputs(fs) :
    Call("delete", path, <<>>, <<>>, delete_entry(fs, path))

Copy ==
  \E source \in SourceInputs(fs), dest_dir \in PathInputs(fs) :
    Call("copy", source, dest_dir, <<>>, copy_entry(fs, source, dest_dir))

Move ==
  \E source \in SourceInputs(fs), dest_dir \in PathInputs(fs) :
    Call("move", source, dest_dir, <<>>, move_entry(fs, source, dest_dir))

Next ==
  \/ ListDirectory
  \/ CreateDirectory
  \/ Mkdir
  \/ Rename
  \/ Delete
  \/ Copy
  \/ Move

Spec == Init /\ [][Next]_vars

\* The filesystem stays a tree.
TypeOK == WellFormed(fs) /\ steps \in 0..MaxOps

(***************************************************************************)
(* Crowded destination directories: the copy-name search near its limit.   *)
(***************************************************************************)
\* How many of the first candidates, and how many short of the limit, the
\* crowded directories hold.
CrowdLow == 2
CrowdHigh == 2

\* The decimal numeral of k, 1 <= k < 10000.
Numeral(k) ==
  LET digits == <<"0", "1", "2", "3", "4", "5", "6", "7", "8", "9">>
      all == <<digits[((k \div 1000) % 10) + 1], digits[((k \div 100) % 10) + 1],
               digits[((k \div 10) % 10) + 1], digits[(k % 10) + 1]>>
      first == CHOOSE i \in 1..4 : all[i] # "0" /\ \A j \in 1..(i - 1) : all[j] = "0"
  IN SubSeq(all, first, 4)

\* The k-th candidate name for a copy of stem + ext: "stem - Copy" + ext for
\* k = 1, "stem - Copy (k)" + ext for k >= 2.
Candidate(stem, ext, k) ==
  stem \o <<" ", "-", " ", "C", "o", "p", "y">>
       \o (IF k = 1 THEN <<>> ELSE <<" ", "(">> \o Numeral(k) \o <<")">>)
       \o ext

\* The sources of the crowded filesystems, each with its stem and extension:
\* a file with an extension, a directory, a directory with a "." in its name,
\* a file with two "." and a file with none.
CrowdSources ==
  {[name |-> NameAT, stem |-> <<"a">>, ext |-> <<".", "t">>, node |-> FileNode(2)],
   [name |-> NameZ, stem |-> <<"Z">>, ext |-> <<>>, node |-> DirNode],
   [name |-> NameDT, stem |-> NameDT, ext |-> <<>>, node |-> DirNode],
   [name |-> NameADT, stem |-> <<"a", ".", "d">>, ext |-> <<".", "t">>, node |-> FileNode(2)],
   [name |-> NameT, stem |-> NameT, ext |-> <<>>, node |-> FileNode(2)]}

\* How many candidates a crowded directory holds, and which one it lacks
\* (0: none).
CrowdSizes == (0..CrowdLow) \cup ((COPY_LIMIT - CrowdHigh)..(COPY_LIMIT + 1))

CrowdHoles == (0..CrowdLow) \cup ((COPY_LIMIT - CrowdHigh)..COPY_LIMIT)

\* /d holds src.name and the candidates 1..n but hole; the source is /src.name.
CrowdTree(src, n, hole) ==
  LET inD == {<<NameD, Candidate(src.stem, src.ext, k)>> : k \in (1..n) \ {hole}}
      dom == {Root, <<NameD>>, <<src.name>>, <<NameD, src.name>>, <<NameAT>>} \cup inD
  IN [p \in dom |->
        IF p \in {Root, <<NameD>>} THEN DirNode
        ELSE IF p = <<src.name>> THEN src.node
        ELSE FileNode(1)]

InitCrowd ==
  /\ \E src \in CrowdSources, n \in CrowdSizes, hole \in CrowdHoles :
       /\ hole <= n
       /\ fs = CrowdTree(src, n, hole)
  /\ last = NoCall @@ [pre |-> fs]
  /\ steps = 0
  /\ procs = <<>>
  /\ walk = <<>>

\* The sources and destination directories the copies on them name.
CrowdSourcePaths == {<<NameD>>, <<NameAT>>, <<NameZ>>, <<NameDT>>, <<NameADT>>, <<NameT>>}

CrowdDestPaths == {Root, <<NameD>>, <<NameAT>>, <<NameZ>>}

\* One copy_entry call on a crowded filesystem.
CrowdCopy ==
  /\ steps = 0
  /\ \E source \in CrowdSourcePaths, dest_dir \in CrowdDestPaths :
       Call("copy", source, dest_dir, <<>>, copy_entry(fs, source, dest_dir))

SpecCopy == InitCrowd /\ [][CrowdCopy]_vars

(***************************************************************************)
(* api/routes/files.py: recursive search.                                  *)
(***************************************************************************)
\* Directories to skip during recursive search.
SKIP_DIRS ==
  {<<".", "g", "i", "t">>,
   <<".", "s", "v", "n">>,
   <<".", "h", "g">>,
   <<"n", "o", "d", "e", "_", "m", "o", "d", "u", "l", "e", "s">>,
   <<"_", "_", "p", "y", "c", "a", "c", "h", "e", "_", "_">>,
   <<".", "v", "e", "n", "v">>,
   <<"v", "e", "n", "v">>,
   <<".", "c", "a", "c", "h", "e">>,
   <<".", "n", "p", "m">>,
   <<".", "c", "a", "r", "g", "o">>,
   <<"t", "a", "r", "g", "e", "t">>,
   <<"b", "u", "i", "l", "d">>,
   <<"d", "i", "s", "t">>,
   <<"o", "u", "t">>,
   <<".", "i", "d", "e", "a">>,
   <<".", "v", "s", "c", "o", "d", "e">>}

\* d.startswith(".")
StartsWithDot(n) == n # <<>> /\ n[1] = "."

\* Mutant: only the skip-set is consulted, dotted directories are walked.
VisibleDir_SkipSetOnly(d) == d \notin SKIP_DIRS

\* d not in SKIP_DIRS and not d.startswith(".")
VisibleDir(d) == d \notin SKIP_DIRS /\ ~StartsWithDot(d)

\* Mutant: the ceiling is noticed one entry late.
CapReached_Late(count, max_entries) == count > max_entries

\* if count >= max_entries: return
CapReached(count, max_entries) == count >= max_entries

\* str(rel_dir / name) if str(rel_dir) != "." else name
RECURSIVE RelStr(_)
RelStr(parts) ==
  IF Len(parts) = 1 THEN parts[1]
  ELSE RelStr(SubSeq(parts, 1, Len(parts) - 1)) \o <<"/">> \o parts[Len(parts)]

\* dirnames of os.walk for the directory dir: the children that are
\* directories, in the order scandir yields them (ord lists all names).
DirNames(f, dir, ord) == SelectSeq(ord, LAMBDA n : IsDir(f, Real(f, Append(dir, n))))

\* filenames of os.walk: the children that are not directories.
FileNames(f, dir, ord) ==
  SelectSeq(ord, LAMBDA n : /\ Exists(f, Append(Real(f, dir), n))
                            /\ ~IsDir(f, Real(f, Append(dir, n))))

\* Mutant: os.walk with followlinks=True.
WalksInto_FollowLinks(f, new_path) == TRUE

\* os.walk's "if followlinks or not islink(new_path)" with the default
\* followlinks=False.
WalksInto(f, new_path) ==
  LET q == Append(Real(f, PathParent(new_path)), PathName(new_path))
  IN ~(Exists(f, q) /\ f[q].kind = "link")

\* The generator's state: what it has yielded, its count, and whether it
\* has returned.
WalkStart == [out |-> <<>>, count |-> 0, returned |-> FALSE]

\* for dirname in visible_dirs: ... yield (rel_path, "directory")
RECURSIVE YieldDirs(_, _, _, _)
YieldDirs(acc, names, rel_dir, max_entries) ==
  IF names = <<>> THEN acc
  ELSE IF CapReached(acc.count, max_entries) THEN [acc EXCEPT !.returned = TRUE]
  ELSE YieldDirs([acc EXCEPT
                    !.out = Append(@, [rel |-> RelStr(Append(rel_dir, names[1])),
                                       kind |-> "directory"]),
                    !.count = @ + 1],
                 Tail(names), rel_dir, max_entries)

\* for filename in filenames: ... yield (rel_path, "file")
RECURSIVE YieldFiles(_, _, _, _)
YieldFiles(acc, names, rel_dir, max_entries) ==
  IF names = <<>> THEN acc
  ELSE IF StartsWithDot(names[1]) THEN YieldFiles(acc, Tail(names), rel_dir, max_entries)
  ELSE IF CapReached(acc.count, max_entries) THEN [acc EXCEPT !.returned = TRUE]
  ELSE YieldFiles([acc EXCEPT
                     !.out = Append(@, [rel |-> RelStr(Append(rel_dir, names[1])),
                                        kind |-> "file"]),
                     !.count = @ + 1],
                  Tail(names), rel_dir, max_entries)

\* The body of "for dirpath, dirnames, filenames in os.walk(root)" for the
\* directory root/rel_dir, and then os.walk's descent, top down, into the
\* directories the body left in dirnames.
RECURSIVE WalkFrom(_, _, _, _, _, _)
RECURSIVE Descend(_, _, _, _, _, _, _)
WalkFrom(f, root, rel_dir, ord, max_entries, acc) ==
  LET visible_dirs == SelectSeq(DirNames(f, root \o rel_dir, ord), VisibleDir)
      a1 == YieldDirs(acc, visible_dirs, rel_dir, max_entries)
      a2 == IF a1.returned THEN a1
            ELSE YieldFiles(a1, FileNames(f, root \o rel_dir, ord), rel_dir, max_entries)
  IN Descend(f, root, rel_dir, visible_dirs, ord, max_entries, a2)

Descend(f, root, rel_dir, dirs, ord, max_entries, acc) ==
  IF acc.returned \/ dirs = <<>> THEN acc
  ELSE IF ~WalksInto(f, root \o Append(rel_dir, dirs[1]))
         THEN Descend(f, root, rel_dir, Tail(dirs), ord, max_entries, acc)
  ELSE Descend(f, root, rel_dir, Tail(dirs), ord, max_entries,
               WalkFrom(f, root, Append(rel_dir, dirs[1]), ord, max_entries, acc))

\* walk_entries(root, max_entries): the (relative_path, kind) pairs yielded.
\* os.walk of what is no directory yields nothing.
walk_entries(f, root, max_entries, ord) ==
  IF ~IsDir(f, Real(f, root)) THEN <<>>
  ELSE WalkFrom(f, root, <<>>, ord, max_entries, WalkStart).out

\* The default of max_entries.
DEFAULT_MAX_ENTRIES == 10000

\* score_cutoff=40 and limit's bounds ge=1, le=100.
SCORE_CUTOFF == 40
LIMIT_MIN == 1
LIMIT_MAX == 100

\* Scores are floats; the model keeps them in thousandths.
ScoreScale == 1000

\* The length of a longest common subsequence: half of what the Indel
\* similarity counts.
RECURSIVE LCS(_, _)
LCS(a, b) ==
  IF a = <<>> \/ b = <<>> THEN 0
  ELSE IF a[1] = b[1] THEN 1 + LCS(Tail(a), Tail(b))
  ELSE LET x == LCS(Tail(a), b)
           y == LCS(a, Tail(b))
       IN IF x >= y THEN x ELSE y

\* rapidfuzz.fuzz.ratio: the normalized Indel similarity, 0 to 100.
Ratio(a, b) ==
  IF Len(a) + Len(b) = 0 THEN 100 * ScoreScale
  ELSE (200 * ScoreScale * LCS(a, b)) \div (Len(a) + Len(b))

\* rapidfuzz.fuzz.partial_ratio: the best ratio of the shorter string
\* against a window of the longer one: the windows of the shorter's length,
\* and the shorter windows at the longer's two ends.
PartialRatio(s1, s2) ==
  LET short == IF Len(s1) <= Len(s2) THEN s1 ELSE s2
      long == IF Len(s1) <= Len(s2) THEN s2 ELSE s1
      m == Len(short)
      n == Len(long)
      windows == {SubSeq(long, i, i + m - 1) : i \in 1..(n - m + 1)}
                   \cup {SubSeq(long, 1, k) : k \in 1..(m - 1)}
                   \cup {SubSeq(long, n - k + 1, n) : k \in 1..(m - 1)}
      scores == {Ratio(short, w) : w \in windows}
  IN IF m = 0 THEN (IF n = 0 THEN 100 * ScoreScale ELSE 0)
     ELSE CHOOSE x \in scores : \A y \in scores : y <= x

\* The matches with their choice's index, a better score first and, of equal
\* scores, the earlier choice first.
RECURSIVE InsertByScore(_, _)
InsertByScore(s, e) ==
  IF s = <<>> THEN <<e>>
  ELSE IF e.score > s[1].score THEN <<e>> \o s
  ELSE <<s[1]>> \o InsertByScore(Tail(s), e)

RECURSIVE SortByScore(_)
SortByScore(ms) ==
  IF ms = <<>> THEN <<>>
  ELSE InsertByScore(SortByScore(SubSeq(ms, 1, Len(ms) - 1)), ms[Len(ms)])

\* Mutant: the choices are cut to limit before they are ranked.
extract_FirstN(query, choices, limit, score_cutoff) ==
  LET scored == [i \in 1..Len(choices) |->
                   [name |-> choices[i], score |-> PartialRatio(query, choices[i]),
                    idx |-> i]]
      kept == SelectSeq(scored, LAMBDA e : e.score >= score_cutoff * ScoreScale)
      cut == SubSeq(kept, 1, IF Len(kept) < limit THEN Len(kept) ELSE limit)
  IN SortByScore(cut)

\* process.extract(query, choices, scorer=fuzz.partial_ratio, limit=limit,
\* score_cutoff=score_cutoff): (choice, score, index) triples
extract(query, choices, limit, score_cutoff) ==
  LET scored == [i \in 1..Len(choices) |->
                   [name |-> choices[i], score |-> PartialRatio(query, choices[i]),
                    idx |-> i]]
      kept == SelectSeq(scored, LAMBDA e : e.score >= score_cutoff * ScoreScale)
      ranked == SortByScore(kept)
  IN SubSeq(ranked, 1, IF Len(ranked) < limit THEN Len(ranked) ELSE limit)

\* GET /search
fuzzy_search(f, root, query, limit, ord) ==
  IF ~Exists(f, root) THEN Failed("NotFound", f)
  ELSE IF ~IsDir(f, root) THEN Failed("NotADirectory", f)
  ELSE LET entries == walk_entries(f, root, DEFAULT_MAX_ENTRIES, ord)
           entry_names == [i \in 1..Len(entries) |->
                             PathName(SplitParts(entries[i].rel, <<>>, <<>>))]
           matches == extract(query, entry_names, limit, SCORE_CUTOFF)
       IN IF entries = <<>> THEN Done(f, <<>>)
          ELSE Done(f, [i \in 1..Len(matches) |->
                          [name |-> matches[i].name,
                           path |-> PathStr(JoinPath(root, entries[matches[i].idx].rel)),
                           relativePath |-> entries[matches[i].idx].rel,
                           score |-> matches[i].score,
                           kind |-> entries[matches[i].idx].kind]])

(***************************************************************************)
(* Searched trees.                                                         *)
(***************************************************************************)
NameGit == <<".", "g", "i", "t">>
NameH == <<".", "h">>
NameVenv == <<"v", "e", "n", "v">>
NameAB == <<"a", "b">>

\* The searched filesystems: every tree over these nodes.
SearchNodes ==
  <<NameAB>> :> DirNode @@ <<NameAB, NameAB>> :> FileNode(1) @@
  <<NameAB, NameVenv>> :> DirNode @@ <<NameAB, NameVenv, NameAB>> :> FileNode(1) @@
  <<NameAB, NameH>> :> DirNode @@ <<NameAB, NameH, NameAB>> :> FileNode(1) @@
  <<NameGit>> :> DirNode @@ <<NameGit, NameAB>> :> FileNode(2) @@
  <<NameVenv>> :> FileNode(1) @@ <<NameH>> :> FileNode(1) @@
  Root :> DirNode

SearchTrees ==
  {f \in {[p \in S \cup {Root} |-> SearchNodes[p]] : S \in SUBSET (DOMAIN SearchNodes)} :
     WellFormed(f)}

\* The orders in which scandir may yield names: every order of the names.
SearchNames == {NameGit, NameH, NameVenv, NameAB}

NameOrders ==
  {o \in [1..Cardinality(SearchNames) -> SearchNames] :
     \A i, j \in 1..Cardinality(SearchNames) : o[i] = o[j] => i = j}

\* The roots, ceilings, queries and limits of the calls.
SearchRoots == {Root, <<NameAB>>, <<NameGit>>, <<NameVenv>>, <<NameAB, NameVenv>>}

MaxWalkCap == 3

CapInputs == (0..MaxWalkCap) \cup {DEFAULT_MAX_ENTRIES}

QueryInputs == {NameAB, <<"a", "e">>, <<"d", "d", "e", "d", "d">>, <<"g", "i", "t">>}

MaxLimitInput == 2

LimitInputs == (LIMIT_MIN..MaxLimitInput) \cup {LIMIT_MAX}

InitSearch ==
  /\ fs \in SearchTrees
  /\ last = NoCall @@ [pre |-> fs]
  /\ steps = 0
  /\ procs = <<>>
  /\ walk = <<>>

\* One walk_entries call.
WalkEntries ==
  /\ steps = 0
  /\ \E root \in SearchRoots, max_entries \in CapInputs, ord \in NameOrders :
       Served("walk_entries", root, <<>>, <<>>, [max_entries |-> max_entries],
              Done(fs, walk_entries(fs, root, max_entries, ord)))

\* One search request.
FuzzySearch ==
  /\ steps = 0
  /\ \E root \in SearchRoots, query \in QueryInputs, limit \in LimitInputs,
        ord \in NameOrders :
       Served("search", root, <<>>, query, [limit |-> limit],
              fuzzy_search(fs, root, query, limit, ord))

NextSearch ==
  \/ WalkEntries
  \/ FuzzySearch

SpecSearch == InitSearch /\ [][NextSearch]_vars

(***************************************************************************)
(* The walk of walk_entries, one directory at a time, on trees that hold   *)
(* symbolic links: links to a directory above them, to each other, to      *)
(* themselves and to nothing.                                              *)
(***************************************************************************)
\* The longest relative directory path the walk can open: the platform
\* refuses longer paths.
MaxWalkDepth == 4

\* The trees over /ab, /ab/ab, /ab/ab/ab, /ab/venv and /venv in which each
\* is a directory, a file or a link to /, to /ab or to /ab/venv.
LinkTrees ==
  LET paths == {<<NameAB>>, <<NameAB, NameAB>>, <<NameAB, NameAB, NameAB>>,
                <<NameAB, NameVenv>>, <<NameVenv>>}
      nodes == {DirNode, FileNode(1), LinkNode(Root), LinkNode(<<NameAB>>),
                LinkNode(<<NameAB, NameVenv>>)}
  IN {f \in UNION {[S \cup {Root} -> nodes] : S \in SUBSET paths} :
        WellFormed(f)}

\* walk_entries(root, max_entries) called: os.walk is about to open root, if
\* root leads to a directory. todo holds the relative paths of the
\* directories to open, the next one first; opened those opened so far,
\* with where they really are.
InitWalk ==
  /\ fs \in LinkTrees
  /\ last = NoCall @@ [pre |-> fs]
  /\ steps = 0
  /\ procs = <<>>
  /\ \E root \in SearchRoots, max_entries \in CapInputs,
        ord \in {o \in NameOrders : o[3] = NameH /\ o[4] = NameGit} :
       walk = [root |-> root, max_entries |-> max_entries, ord |-> ord,
               acc |-> WalkStart, opened |-> <<>>,
               todo |-> IF IsDir(fs, Real(fs, root)) THEN <<Root>> ELSE <<>>]

\* One round of "for dirpath, dirnames, filenames in os.walk(root)": the
\* next directory is listed, its visible entries are yielded up to the
\* ceiling, and os.walk queues the directories left in dirnames that it
\* walks into ahead of the ones queued before.
ScanStep ==
  /\ walk.todo # <<>> /\ ~walk.acc.returned
  /\ Len(walk.todo[1]) <= MaxWalkDepth
  /\ LET rel_dir == walk.todo[1]
         dirpath == walk.root \o rel_dir
         visible_dirs == SelectSeq(DirNames(fs, dirpath, walk.ord), VisibleDir)
         a1 == YieldDirs(walk.acc, visible_dirs, rel_dir, walk.max_entries)
         a2 == IF a1.returned THEN a1
               ELSE YieldFiles(a1, FileNames(fs, dirpath, walk.ord), rel_dir,
                               walk.max_entries)
         into == SelectSeq(visible_dirs, LAMBDA d : WalksInto(fs, Append(dirpath, d)))
     IN walk' = [walk EXCEPT
                   !.acc = a2,
                   !.opened = Append(@, [rel |-> rel_dir, real |-> Real(fs, dirpath)]),
                   !.todo = [i \in 1..Len(into) |-> Append(rel_dir, into[i])]
                              \o Tail(@)]
  /\ UNCHANGED <<fs, last, steps, procs>>

\* The generator is resumed until it is exhausted.
SpecWalk == InitWalk /\ [][ScanStep]_vars /\ WF_vars(ScanStep)

(***************************************************************************)
(* Two requests served at once. The handlers are plain functions, which    *)
(* the request layer runs on worker threads: the reads an operation makes  *)
(* before its write and the write itself are separate steps, and the steps *)
(* of two operations interleave.                                           *)
(***************************************************************************)
\* path.mkdir()
os_mkdir(f, path) ==
  IF Exists(f, path) THEN Failed("AlreadyExists", f)
  ELSE IF ~Exists(f, PathParent(path)) THEN Failed("NotFound", f)
  ELSE IF ~IsDir(f, PathParent(path)) THEN Failed("OtherError", f)
  ELSE Done(WithNode(f, path, DirNode), <<>>)

\* path.unlink()
unlink(f, path) ==
  IF ~Exists(f, path) THEN Failed("NotFound", f)
  ELSE IF IsDir(f, path) THEN Failed("OtherError", f)
  ELSE Done(Without(f, {path}), <<>>)

\* shutil.rmtree(path), first half: the contents of the directory go.
rmtree_contents(f, path) ==
  IF ~Exists(f, path) THEN Failed("NotFound", f)
  ELSE IF ~IsDir(f, path) THEN Failed("OtherError", f)
  ELSE Done(Without(f, Subtree(f, path) \ {path}), <<>>)

\* shutil.rmtree(path), second half: os.rmdir(path) of the emptied directory.
os_rmdir(f, path) ==
  IF ~Exists(f, path) THEN Failed("NotFound", f)
  ELSE IF ~IsDir(f, path) \/ Subtree(f, path) # {path} THEN Failed("OtherError", f)
  ELSE Done(Without(f, {path}), <<>>)

\* What an operation has read when it reaches its write: whether it goes on
\* (go) or has raised res, the target it computed and source.is_dir().
Raise(err) == [go |-> FALSE, res |-> err, target |-> <<>>, is_dir |-> FALSE]

Proceed(target, is_dir) == [go |-> TRUE, res |-> "ok", target |-> target, is_dir |-> is_dir]

\* create_directory up to path.mkdir()
create_directory_checks(f, path) ==
  IF PathName(path) = EmptyStr THEN Raise("InvalidName")
  ELSE IF Exists(f, path) THEN Raise("AlreadyExists")
  ELSE IF ~Exists(f, PathParent(path)) THEN Raise("ParentNotFound")
  ELSE Proceed(path, TRUE)

\* rename_entry up to source.rename(target)
rename_entry_checks(f, source, new_name) ==
  IF new_name = EmptyStr THEN Raise("InvalidName")
  ELSE IF ~Exists(f, source) THEN Raise("NotFound")
  ELSE IF Exists(f, JoinPath(PathParent(source), new_name)) THEN Raise("AlreadyExists")
  ELSE Proceed(JoinPath(PathParent(source), new_name), IsDir(f, source))

\* delete_entry up to shutil.rmtree(path) or path.unlink()
delete_entry_checks(f, path) ==
  IF ~Exists(f, path) THEN Raise("NotFound")
  ELSE Proceed(path, IsDir(f, path))

\* copy_entry up to shutil.copytree or shutil.copy2
copy_entry_checks(f, source, dest_dir) ==
  IF ~Exists(f, source) \/ ~Exists(f, dest_dir) THEN Raise("NotFound")
  ELSE LET plain == JoinPath(dest_dir, PathName(source))
           gen == IF Exists(f, plain)
                    THEN _generate_copy_name(f, dest_dir, PathName(source),
                                             IsDir(f, source))
                    ELSE [ok |-> TRUE, target |-> plain]
       IN IF ~gen.ok THEN Raise("TooManyCopies")
          ELSE Proceed(gen.target, IsDir(f, source))

\* Mutant: the move goes on although its target exists.
move_entry_checks_NoTargetTest(f, source, dest_dir) ==
  IF ~Exists(f, source) \/ ~Exists(f, dest_dir) THEN Raise("NotFound")
  ELSE Proceed(JoinPath(dest_dir, PathName(source)), IsDir(f, source))

\* move_entry up to shutil.move
move_entry_checks(f, source, dest_dir) ==
  IF ~Exists(f, source) \/ ~Exists(f, dest_dir) THEN Raise("NotFound")
  ELSE IF Exists(f, JoinPath(dest_dir, PathName(source))) THEN Raise("AlreadyExists")
  ELSE Proceed(JoinPath(dest_dir, PathName(source)), IsDir(f, source))

\* The reads of request rq on the filesystem f.
Checks(f, rq) ==
  CASE rq.op = "create_directory" -> create_directory_checks(f, rq.src)
    [] rq.op = "rename" -> rename_entry_checks(f, rq.src, rq.name)
    [] rq.op = "delete" -> delete_entry_checks(f, rq.src)
    [] rq.op = "copy" -> copy_entry_checks(f, rq.src, rq.dst)
    [] rq.op = "move" -> move_entry_checks(f, rq.src, rq.dst)

\* The FileEntry built from target.stat() once the write is through.
EntryAfter(r, target) ==
  IF r.res # "ok" THEN r
  ELSE IF ~Exists(r.fs, target) THEN Failed("NotFound", r.fs)
  ELSE Done(r.fs, <<MakeEntry(r.fs, target)>>)

\* The write of request rq on the filesystem f, with the target and the
\* kind of source its reads gave, and the rest of the operation. The removal
\* of a directory ends with the step os_rmdir.
Writes(f, rq, target, is_dir) ==
  CASE rq.op = "create_directory" ->
         LET r == os_mkdir(f, target)
         IN IF r.res # "ok" THEN r
            ELSE IF ~Exists(r.fs, target) THEN Failed("NotFound", r.fs)
            ELSE Done(r.fs, <<[name |-> PathName(target), path |-> PathStr(target),
                               kind |-> "directory", size |-> 0]>>)
    [] rq.op = "rename" -> EntryAfter(os_rename(f, rq.src, target), target)
    [] rq.op = "delete" -> IF is_dir THEN rmtree_contents(f, target) ELSE unlink(f, target)
    [] rq.op = "copy" ->
         EntryAfter(IF is_dir THEN copytree(f, rq.src, target)
                    ELSE copy2(f, rq.src, target), target)
    [] rq.op = "move" -> EntryAfter(shutil_move(f, rq.src, target), target)

\* Request rq served alone, from its route to its response.
Alone(f, rq) ==
  CASE rq.op = "create_directory" -> create_directory(f, rq.src)
    [] rq.op = "rename" -> rename_entry(f, rq.src, rq.name)
    [] rq.op = "delete" -> delete_entry(f, rq.src)
    [] rq.op = "copy" -> copy_entry(f, rq.src, rq.dst)
    [] rq.op = "move" -> move_entry(f, rq.src, rq.dst)

\* Mutant: an operation is held to touch its source only.
Footprint_SourceOnly(f, rq) == {rq.src}

\* The paths request rq reads for its decision or writes: its source, the
\* target it computes and, for a copy, the first generated name.
Footprint(f, rq) ==
  CASE rq.op \in {"create_directory", "delete"} -> {rq.src}
    [] rq.op = "rename" -> {rq.src, JoinPath(PathParent(rq.src), rq.name)}
    [] rq.op = "move" -> {rq.src, JoinPath(rq.dst, PathName(rq.src))}
    [] rq.op = "copy" ->
         {rq.src, JoinPath(rq.dst, PathName(rq.src)),
          JoinPath(rq.dst, CopyBase(PathName(rq.src), IsDir(f, rq.src)) \o CopyWord
                             \o CopyExt(PathName(rq.src), IsDir(f, rq.src)))}

\* The filesystems two requests meet: /d with a.t in it and /a.t, with or
\* without /d/d, /d/Z and /Z.
PairTrees ==
  {f \in InitTrees :
     /\ {<<NameD>>, <<NameD, NameAT>>, <<NameAT>>} \subseteq DOMAIN f
     /\ <<NameD, NameD, NameD>> \notin DOMAIN f}

PairCreatePaths == {<<NameD, NameZ>>, <<NameZ, NameAT>>, <<NameD, NameD>>}

PairSources == {<<NameAT>>, <<NameD>>, <<NameD, NameAT>>, <<NameZ>>, <<NameD, NameD>>}

PairDests == {Root, <<NameD>>, <<NameZ>>}

PairNames == {NameAT, NameZ}

Requests ==
  {[op |-> "create_directory", src |-> p, dst |-> <<>>, name |-> <<>>] : p \in PairCreatePaths}
  \cup {[op |-> "delete", src |-> p, dst |-> <<>>, name |-> <<>>] : p \in PairSources}
  \cup {[op |-> "rename", src |-> p, dst |-> <<>>, name |-> n] : p \in PairSources, n \in PairNames}
  \cup {[op |-> "copy", src |-> p, dst |-> d, name |-> <<>>] : p \in PairSources, d \in PairDests}
  \cup {[op |-> "move", src |-> p, dst |-> d, name |-> <<>>] : p \in PairSources, d \in PairDests}

\* A worker about to serve rq. pc is where it stands: "checks", "write",
\* "rmdir" or "done"; seen is the filesystem its reads met, pre and post the
\* filesystem before and after its last write.
Worker(rq) ==
  [rq |-> rq, pc |-> "checks", target |-> <<>>, is_dir |-> FALSE,
   res |-> "ok", ret |-> <<>>, seen |-> <<>>, pre |-> <<>>, post |-> <<>>]

InitPair ==
  /\ fs \in PairTrees
  /\ last = NoCall @@ [pre |-> fs]
  /\ steps = 0
  /\ procs \in {<<Worker(a), Worker(b)>> : a, b \in Requests}
  /\ walk = <<>>

\* Worker i makes its reads.
CheckStep(i) ==
  /\ procs[i].pc = "checks"
  /\ LET c == Checks(fs, procs[i].rq)
     IN procs' = [procs EXCEPT ![i] =
                    [@ EXCEPT !.pc = IF c.go THEN "write" ELSE "done",
                              !.target = c.target, !.is_dir = c.is_dir,
                              !.res = c.res, !.seen = fs]]
  /\ UNCHANGED <<fs, last, steps, walk>>

\* Worker i makes its write and, but for the removal of a directory,
\* finishes.
WriteStep(i) ==
  /\ procs[i].pc = "write"
  /\ LET w == procs[i]
         r == Writes(fs, w.rq, w.target, w.is_dir)
         more == w.rq.op = "delete" /\ w.is_dir /\ r.res = "ok"
     IN /\ fs' = r.fs
        /\ procs' = [procs EXCEPT ![i] =
                       [@ EXCEPT !.pc = IF more THEN "rmdir" ELSE "done",
                                 !.res = r.res, !.ret = r.ret,
                                 !.pre = fs, !.post = r.fs]]
  /\ UNCHANGED <<last, steps, walk>>

\* Worker i removes the directory it has emptied.
RmdirStep(i) ==
  /\ procs[i].pc = "rmdir"
  /\ LET r == os_rmdir(fs, procs[i].target)
     IN /\ fs' = r.fs
        /\ procs' = [procs EXCEPT ![i] =
                       [@ EXCEPT !.pc = "done", !.res = r.res, !.post = r.fs]]
  /\ UNCHANGED <<last, steps, walk>>

NextPair ==
  \E i \in {1, 2} :
    \/ CheckStep(i)
    \/ WriteStep(i)
    \/ RmdirStep(i)

SpecPair == InitPair /\ [][NextPair]_vars

(***************************************************************************)
(* Properties.                                                             *)
(***************************************************************************)
\* The last call was a copy whose source and destination directory existed
\* and whose destination already held the source's name.
CopyCollided ==
  /\ last.op = "copy"
  /\ Exists(last.pre, last.src)
  /\ Exists(last.pre, last.dst)
  /\ Exists(last.pre, JoinPath(last.dst, PathName(last.src)))

\* Where the extension of a file name starts: at its last ".", behind the
\* name if it has none.
ExtStart(name) ==
  LET dots == {i \in 1..Len(name) : name[i] = "."}
  IN IF dots = {} THEN Len(name) + 1
     ELSE CHOOSE i \in dots : \A j \in dots : j <= i

\* The stem and the extension of the copied source: a directory has no
\* extension.
SrcStem ==
  IF IsDir(last.pre, last.src) THEN PathName(last.src)
  ELSE SubSeq(PathName(last.src), 1, ExtStart(PathName(last.src)) - 1)

SrcExt ==
  IF IsDir(last.pre, last.src) THEN <<>>
  ELSE SubSeq(PathName(last.src), ExtStart(PathName(last.src)), Len(PathName(last.src)))

\* The k-th candidate name is in use in the destination directory.
Taken(k) == Exists(last.pre, Append(last.dst, Candidate(SrcStem, SrcExt, k)))

\* All COPY_LIMIT candidate names are in use.
AllTaken == \A k \in 1..COPY_LIMIT : Taken(k)

\* nm is the first unused candidate name among the first n.
FirstFree(nm, n) ==
  \E k \in 1..n :
    /\ nm = Candidate(SrcStem, SrcExt, k)
    /\ ~Taken(k)
    /\ \A j \in 1..(k - 1) : Taken(j)

\* The destination directory lies strictly inside the copied directory.
CopyIntoOwnSubtree == IsDir(last.pre, last.src) /\ IsStrictPrefix(last.src, last.dst)

\* C1 as stated: whenever source and destDir exist and destDir/name exists,
\* copy succeeds and the returned entry is named "name - Copy<ext>" if that
\* is free, else "name - Copy (k)<ext>" for the smallest unused k >= 2.
C1_Original ==
  CopyCollided =>
    /\ last.res = "ok"
    /\ Len(last.ret) = 1
    /\ FirstFree(last.ret[1].name, COPY_LIMIT + 1)

\* C1 as amended: whenever source and destDir exist, destDir/name exists
\* and destDir does not lie inside the copied directory, copy succeeds
\* unless all 1000 candidate names are taken, when it fails with
\* TooManyCopies; the returned entry is named "name - Copy<ext>" if that is
\* free, else "name - Copy (k)<ext>" for the smallest unused k >= 2.
C1_CopyNeverCollides ==
  (CopyCollided /\ ~CopyIntoOwnSubtree) =>
    IF AllTaken THEN last.res = "TooManyCopies"
    ELSE /\ last.res = "ok"
         /\ Len(last.ret) = 1
         /\ FirstFree(last.ret[1].name, COPY_LIMIT)
         /\ Exists(fs, Append(last.dst, last.ret[1].name))

\* C1 witness: a collision on which "name - Copy<ext>" was taken too and the
\* copy came out as "name - Copy (2)<ext>".
C1_Witness ==
  /\ CopyCollided
  /\ last.res = "ok"
  /\ Taken(1)
  /\ last.ret[1].name = Candidate(SrcStem, SrcExt, 2)

C10_ExactlyLimitCandidates ==
  CopyCollided =>
    LET upto == COPY_LIMIT + 1
        lead == IF \A k \in 1..upto : Taken(k) THEN upto
                ELSE (CHOOSE k \in 1..upto : ~Taken(k) /\ \A j \in 1..(k - 1) : Taken(j)) - 1
    IN /\ last.res = "TooManyCopies" <=> lead >= COPY_LIMIT
       /\ last.res = "TooManyCopies" => fs = last.pre
       /\ last.res = "ok" =>
            /\ last.ret[1].name = Candidate(SrcStem, SrcExt, lead + 1)
            /\ Exists(fs, Append(last.dst, Candidate(SrcStem, SrcExt, lead + 1)))

\* C10 witness: every candidate but the last, "name - Copy (1000)<ext>", was
\* taken and the copy was made under that name.
C10_Witness ==
  /\ CopyCollided
  /\ last.res = "ok"
  /\ \A k \in 1..(COPY_LIMIT - 1) : Taken(k)
  /\ last.ret[1].name = Candidate(SrcStem, SrcExt, COPY_LIMIT)

\* The subtree that was at src before the call is at dst now, node for node,
\* and src is gone.
MovedTo(src, dst) ==
  /\ ~Exists(fs, src)
  /\ Exists(fs, dst)
  /\ \A q \in Subtree(last.pre, src) :
       /\ Exists(fs, dst \o Suffix(src, q))
       /\ fs[dst \o Suffix(src, q)] = last.pre[q]
  /\ \A q \in Subtree(fs, dst) : Exists(last.pre, src \o Suffix(dst, q))

\* C3 as stated: move fails with AlreadyExists if and only if
\* destDir/<source name> exists at call time; on success the source path is
\* gone and destDir/<source name> holds the source's prior kind and content.
C3_Original ==
  last.op = "move" =>
    LET target == JoinPath(last.dst, PathName(last.src))
    IN /\ last.res = "AlreadyExists" <=> Exists(last.pre, target)
       /\ last.res = "ok" => MovedTo(last.src, target)

\* C3 as amended: for a source that exists, move fails with AlreadyExists
\* if and only if destDir/<source name> exists at call time (a missing
\* source is reported as NotFound first); on success the source path is gone
\* and destDir/<source name> holds the source's prior kind and content.
C3_MoveFailsIffTargetExists ==
  (last.op = "move" /\ Exists(last.pre, last.src)) =>
    LET target == JoinPath(last.dst, PathName(last.src))
    IN /\ last.res = "AlreadyExists" <=> Exists(last.pre, target)
       /\ last.res = "AlreadyExists" => fs = last.pre
       /\ last.res = "ok" => (MovedTo(last.src, target) /\ last.ret[1].name = PathName(last.src))

\* C3 witness: a directory with contents was moved.
C3_Witness ==
  /\ last.op = "move"
  /\ last.res = "ok"
  /\ IsDir(last.pre, last.src)
  /\ \E q \in Subtree(last.pre, last.src) : q # last.src
  /\ IsDir(fs, Append(last.dst, PathName(last.src)))

\* C4 as stated: createDirectory is rejected with AlreadyExists if and only
\* if the target path exists at call time and with InvalidName if and only
\* if the new directory's name is empty, also for a target the request layer
\* builds as parentPath joined with name.
\* (Where the name is empty and the target exists, the name decides.)
C4_Original ==
  /\ last.op = "create_directory" =>
       /\ last.res = "InvalidName" <=> PathName(last.src) = EmptyStr
       /\ PathName(last.src) # EmptyStr =>
            (last.res = "AlreadyExists" <=> Exists(last.pre, last.src))
  /\ last.op = "mkdir" =>
       /\ last.res = "InvalidName" <=> last.name = EmptyStr
       /\ last.name # EmptyStr =>
            (last.res = "AlreadyExists" <=> Exists(last.pre, JoinPath(last.src, last.name)))

\* A name of one path component: not empty, no separator, not "." or "..".
PlainName(s) ==
  /\ s # <<>>
  /\ \A i \in 1..Len(s) : s[i] # "/"
  /\ s # <<".">>
  /\ s # <<".", ".">>

\* C5 as stated: rename of an existing source fails with AlreadyExists
\* whenever a node named newName exists in the source's directory, and then
\* nothing is changed; when no such node exists rename succeeds, the old
\* path is gone and the new path holds the source's prior content.
C5_Original ==
  (last.op = "rename" /\ Exists(last.pre, last.src)) =>
    LET sibling == Append(PathParent(last.src), last.name)
    IN IF Exists(last.pre, sibling)
         THEN last.res = "AlreadyExists" /\ fs = last.pre
         ELSE last.res = "ok" /\ MovedTo(last.src, sibling)

\* C5 as amended: rename of an existing source fails with AlreadyExists
\* whenever a node named newName exists in the source's directory, and then
\* nothing is changed; when no such node exists and newName is one non-empty
\* path component, rename succeeds, the old path is gone and the new path
\* holds the source's prior content. (The sources are below the root.)
C5_RenameNeverOverwrites ==
  (last.op = "rename" /\ Exists(last.pre, last.src)) =>
    LET sibling == Append(PathParent(last.src), last.name)
    IN /\ Exists(last.pre, sibling) => (last.res = "AlreadyExists" /\ fs = last.pre)
       /\ (~Exists(last.pre, sibling) /\ PlainName(last.name)) =>
            (last.res = "ok" /\ MovedTo(last.src, sibling))

\* C5 witness: a rename onto the name of another node of other content was
\* refused.
C5_Witness ==
  /\ last.op = "rename"
  /\ last.res = "AlreadyExists"
  /\ Exists(last.pre, last.src)
  /\ Append(PathParent(last.src), last.name) # last.src
  /\ last.pre[Append(PathParent(last.src), last.name)] # last.pre[last.src]

\* C6: rename with the empty string as new name fails with InvalidName and
\* leaves the filesystem as it was, whether the source exists or not.
C6_RenameEmptyName ==
  (last.op = "rename" /\ last.name = EmptyStr) =>
    (last.res = "InvalidName" /\ fs = last.pre)

\* C6 witness: a rename to "" of a source that does not exist.
C6_Witness ==
  /\ last.op = "rename"
  /\ last.name = EmptyStr
  /\ ~Exists(last.pre, last.src)
  /\ last.res = "InvalidName"

\* C7: delete fails with NotFound if and only if the path does not exist;
\* a path that exists is deleted, and then neither it nor any descendant
\* exists and every node outside its subtree is unchanged.
C7_DeleteRemovesSubtree ==
  last.op = "delete" =>
    /\ last.res = "NotFound" <=> ~Exists(last.pre, last.src)
    /\ Exists(last.pre, last.src) => last.res = "ok"
    /\ last.res = "ok" =>
         /\ \A q \in DOMAIN last.pre :
              IF IsPrefix(last.src, q) THEN ~Exists(fs, q)
              ELSE Exists(fs, q) /\ fs[q] = last.pre[q]
         /\ DOMAIN fs \subseteq DOMAIN last.pre

\* C7 witness: a directory with contents was deleted while other nodes stay.
C7_Witness ==
  /\ last.op = "delete"
  /\ last.res = "ok"
  /\ \E q \in DOMAIN last.pre : IsStrictPrefix(last.src, q)
  /\ \E q \in DOMAIN fs : q # Root

\* C8: in every listing all directories come before all files, and within
\* each kind the lower-cased names are non-decreasing.
C8_ListingSorted ==
  (last.op = "list_directory" /\ last.res = "ok") =>
    \A i, j \in 1..Len(last.ret) :
      i < j =>
        /\ ~(last.ret[i].kind = "file" /\ last.ret[j].kind = "directory")
        /\ last.ret[i].kind = last.ret[j].kind =>
             ~StrLess(Lower(last.ret[j].name), Lower(last.ret[i].name))

\* C8 witness: a listing of a directory and two files whose names sort
\* differently with and without case.
C8_Witness ==
  /\ last.op = "list_directory"
  /\ last.res = "ok"
  /\ Len(last.ret) >= 3
  /\ last.ret[1].kind = "directory"
  /\ \E i \in 1..(Len(last.ret) - 1) :
       /\ last.ret[i].kind = "file"
       /\ last.ret[i + 1].kind = "file"
       /\ StrLess(last.ret[i + 1].name, last.ret[i].name)

\* The error kinds the operations report from their own checks.
CheckedErrors ==
  {"NotFound", "AlreadyExists", "InvalidName", "ParentNotFound", "TooManyCopies"}

\* C9: a createDirectory, rename, delete, copy or move that returns one of
\* these errors leaves the filesystem exactly as it was before the call.
C9_FailedCallChangesNothing ==
  (/\ last.op \in {"create_directory", "mkdir", "rename", "delete", "copy", "move"}
   /\ last.res \in CheckedErrors) => fs = last.pre

\* C9 witness: a createDirectory below a missing parent was refused.
C9_Witness ==
  /\ last.op = "create_directory"
  /\ last.res = "ParentNotFound"
  /\ fs = last.pre
  /\ ~Exists(fs, PathParent(last.src))

C15_ListFailsOffDirectories ==
  last.op = "list_directory" =>
    /\ ~IsDir(last.pre, last.src) => last.res = "NotADirectory"
    /\ IsDir(last.pre, last.src) => (last.res = "ok" /\ fs = last.pre)

\* C15 witness: the listing of a regular file was refused.
C15_Witness ==
  /\ last.op = "list_directory"
  /\ Exists(last.pre, last.src)
  /\ last.pre[last.src].kind = "file"
  /\ last.res = "NotADirectory"

\* C16: a listing holds exactly one entry for each immediate child whose
\* stat succeeds and none for a child whose stat fails; failing children
\* never turn the listing into an error, and nothing but immediate children
\* is listed.
C16_ListingSkipsFailingChildren ==
  (last.op = "list_directory" /\ IsDir(last.pre, last.src)) =>
    /\ last.res = "ok"
    /\ \A c \in Children(last.pre, last.src) \ last.extra :
         Cardinality({i \in 1..Len(last.ret) : last.ret[i].path = PathStr(c)}) = 1
    /\ \A i \in 1..Len(last.ret) :
         \E c \in Children(last.pre, last.src) \ last.extra :
           /\ last.ret[i].path = PathStr(c)
           /\ last.ret[i].name = PathName(c)
           /\ last.ret[i].kind = last.pre[c].kind

\* C16 witness: a directory with grandchildren was listed while the stat of
\* one child failed and that of another succeeded.
C16_Witness ==
  /\ last.op = "list_directory"
  /\ last.res = "ok"
  /\ last.extra # {}
  /\ Len(last.ret) >= 1
  /\ \E q \in Subtree(last.pre, last.src) : Len(q) >= Len(last.src) + 2

\* C18 as stated: after every successful rename the node lies in the
\* source's parent directory under the base name newName, the source's
\* prior content is there, and the returned entry's name is newName.
C18_Original ==
  (last.op = "rename" /\ last.res = "ok") =>
    LET sibling == Append(PathParent(last.src), last.name)
    IN /\ Exists(fs, sibling)
       /\ fs[sibling] = last.pre[last.src]
       /\ last.ret[1].name = last.name

\* The part of a copy's name between " - Copy" and the extension: nothing,
\* or " (k)" with a decimal numeral k.
CopyNumbering(mid) ==
  \/ mid = <<>>
  \/ /\ Len(mid) >= 4
     /\ mid[1] = " " /\ mid[2] = "(" /\ mid[Len(mid)] = ")"
     /\ \A i \in 3..(Len(mid) - 1) :
          mid[i] \in {"0", "1", "2", "3", "4", "5", "6", "7", "8", "9"}

\* C19: on a collision the copy of a file is named by putting " - Copy",
\* and " (k)" when needed, right before the extension, which is the part of
\* the name from its last "." on and is empty for a name without "."; the
\* copy of a directory is named by its whole name followed by that suffix.
C19_CopyNameKeepsExtension ==
  (CopyCollided /\ last.res = "ok") =>
    LET nm == PathName(last.src)
        copy == last.ret[1].name
        dots == {i \in 1..Len(nm) : nm[i] = "."}
        cut == IF IsDir(last.pre, last.src) \/ dots = {} THEN Len(nm) + 1
               ELSE CHOOSE i \in dots : \A j \in dots : j <= i
        stem == SubSeq(nm, 1, cut - 1)
        ext == SubSeq(nm, cut, Len(nm))
    IN /\ Len(copy) >= Len(nm) + 7
       /\ SubSeq(copy, 1, Len(stem)) = stem
       /\ SubSeq(copy, Len(stem) + 1, Len(stem) + 7) = <<" ", "-", " ", "C", "o", "p", "y">>
       /\ SubSeq(copy, Len(copy) - Len(ext) + 1, Len(copy)) = ext
       /\ CopyNumbering(SubSeq(copy, Len(stem) + 8, Len(copy) - Len(ext)))

\* C19 witness: a directory with a "." in its name was copied on a collision
\* and the copy's name ends with the numbered suffix.
C19_Witness ==
  /\ CopyCollided
  /\ last.res = "ok"
  /\ IsDir(last.pre, last.src)
  /\ \E i \in 1..Len(PathName(last.src)) : PathName(last.src)[i] = "."
  /\ last.ret[1].name[Len(last.ret[1].name)] = ")"

\* A name the search passes over when a directory bears it: one of the
\* skip-set or one that starts with ".".
SkippedDirName(n) == n \in SKIP_DIRS \/ StartsWithDot(n)

\* The components of a relative path the search has emitted.
RelParts(rel) == SplitParts(rel, <<>>, <<>>)

\* The relative path lies in no skipped directory and names neither a
\* skipped directory nor a dot-prefixed file.
InPlainSight(rel, kind) ==
  LET ps == RelParts(rel)
  IN /\ ps # <<>>
     /\ \A i \in 1..(Len(ps) - 1) : ~SkippedDirName(ps[i])
     /\ ~StartsWithDot(ps[Len(ps)])
     /\ kind = "directory" => ~SkippedDirName(ps[Len(ps)])

\* The nodes below root the search is to see: those in plain sight.
VisibleBelow(f, root) ==
  {q \in DOMAIN f :
     /\ IsStrictPrefix(root, q)
     /\ \A i \in 1..(Len(q) - Len(root) - 1) : ~SkippedDirName(q[Len(root) + i])
     /\ ~StartsWithDot(q[Len(q)])
     /\ IsDir(f, q) => ~SkippedDirName(q[Len(q)])}

\* C12: below the searched root, no directory at any depth whose name is in
\* the skip-set or starts with "." is emitted or descended into, and no
\* dot-prefixed file is emitted: every entry walk_entries yields and every
\* search result is in plain sight and is a node of the tree.
C12_SearchSkipsHiddenDirs ==
  /\ last.op = "walk_entries" =>
       \A i \in 1..Len(last.ret) :
         /\ InPlainSight(last.ret[i].rel, last.ret[i].kind)
         /\ Exists(last.pre, last.src \o RelParts(last.ret[i].rel))
         /\ last.ret[i].kind = last.pre[last.src \o RelParts(last.ret[i].rel)].kind
  /\ (last.op = "search" /\ last.res = "ok") =>
       \A i \in 1..Len(last.ret) :
         /\ InPlainSight(last.ret[i].relativePath, last.ret[i].kind)
         /\ Exists(last.pre, last.src \o RelParts(last.ret[i].relativePath))
         /\ last.ret[i].path = PathStr(last.src \o RelParts(last.ret[i].relativePath))

\* C12 witness: a search returned results from a tree that holds, two levels
\* down in a skip-set directory, a file of the very name that was asked for.
C12_Witness ==
  /\ last.op = "search"
  /\ last.res = "ok"
  /\ last.src = Root
  /\ last.name = NameAB
  /\ Exists(last.pre, <<NameAB, NameVenv, NameAB>>)
  /\ Exists(last.pre, <<NameGit, NameAB>>)
  /\ Len(last.ret) >= 2

\* C13: walk_entries yields at most max_entries entries over the whole walk,
\* directories and files of all directories counted together; it yields
\* each visible entry at most once, as many as the ceiling allows, and all
\* of them when the tree has no more than max_entries.
C13_WalkCeiling ==
  (last.op = "walk_entries" /\ IsDir(last.pre, last.src)) =>
    LET vis == VisibleBelow(last.pre, last.src)
        cap == last.extra.max_entries
        got == {last.src \o RelParts(last.ret[i].rel) : i \in 1..Len(last.ret)}
    IN /\ Len(last.ret) <= cap
       /\ Cardinality(got) = Len(last.ret)
       /\ got \subseteq vis
       /\ Len(last.ret) = (IF Cardinality(vis) <= cap THEN Cardinality(vis) ELSE cap)
       /\ Cardinality(vis) <= cap => got = vis

\* C13 witness: a walk stopped at a ceiling of two with entries of two
\* directories still to come or already taken.
C13_Witness ==
  /\ last.op = "walk_entries"
  /\ last.extra.max_entries = 2
  /\ Len(last.ret) = 2
  /\ Cardinality(VisibleBelow(last.pre, last.src)) = 3
  /\ \E q \in VisibleBelow(last.pre, last.src) : Len(q) = Len(last.src) + 2

\* C14: a search of a valid root returns at most limit results, each with a
\* score of at least 40 that is the score of its base name, in
\* non-increasing order of score; no visible entry left out scores higher
\* than a returned one, and one that reaches the cutoff is left out only
\* when limit results were returned.
C14_SearchRanksAndTruncates ==
  (last.op = "search" /\ IsDir(last.pre, last.src)) =>
    LET returned == {last.src \o RelParts(last.ret[i].relativePath) : i \in 1..Len(last.ret)}
        omitted == VisibleBelow(last.pre, last.src) \ returned
    IN /\ last.res = "ok"
       /\ Len(last.ret) <= last.extra.limit
       /\ \A i \in 1..Len(last.ret) :
            /\ last.ret[i].name = PathName(RelParts(last.ret[i].relativePath))
            /\ last.ret[i].score = PartialRatio(last.name, last.ret[i].name)
            /\ last.ret[i].score >= SCORE_CUTOFF * ScoreScale
       /\ \A i, j \in 1..Len(last.ret) : i < j => last.ret[i].score >= last.ret[j].score
       /\ \A q \in omitted :
            /\ \A i \in 1..Len(last.ret) :
                 PartialRatio(last.name, PathName(q)) <= last.ret[i].score
            /\ PartialRatio(last.name, PathName(q)) >= SCORE_CUTOFF * ScoreScale =>
                 Len(last.ret) = last.extra.limit

\* C14 witness: with limit 1 the better of two entries that both reach the
\* cutoff was returned and the other left out.
C14_Witness ==
  /\ last.op = "search"
  /\ last.res = "ok"
  /\ last.extra.limit = 1
  /\ Len(last.ret) = 1
  /\ \E q \in VisibleBelow(last.pre, last.src) :
       /\ PartialRatio(last.name, PathName(q)) >= SCORE_CUTOFF * ScoreScale
       /\ PartialRatio(last.name, PathName(q)) < last.ret[1].score

(***************************************************************************)
(* Two requests at once.                                                   *)
(***************************************************************************)
\* Both workers are through.
BothDone == procs # <<>> /\ procs[1].pc = "done" /\ procs[2].pc = "done"

\* What a worker answered agrees with the outcome r: same exception class
\* or, where there is none, the same entry.
Answered(w, r) == ExceptionType(w.res) = ExceptionType(r.res) /\ w.ret = r.ret

\* The two workers answered and left what the requests, served one after
\* the other with worker a first, give.
AsInOrder(a, b) ==
  LET first == Alone(last.pre, procs[a].rq)
      second == Alone(first.fs, procs[b].rq)
  IN Answered(procs[a], first) /\ Answered(procs[b], second) /\ fs = second.fs

SplitAgrees ==
  \A rq \in Requests :
    LET c == Checks(fs, rq)
        w == Writes(fs, rq, c.target, c.is_dir)
        r == IF ~c.go THEN Failed(c.res, fs)
             ELSE IF rq.op = "delete" /\ c.is_dir /\ w.res = "ok"
                    THEN os_rmdir(w.fs, c.target)
             ELSE w
        s == Alone(fs, rq)
    IN procs # <<>> /\ procs[1].pc = "checks" /\ procs[2].pc = "checks"
         => r.res = s.res /\ r.fs = s.fs /\ r.ret = s.ret

\* The two requests work on different paths: no path of one is a path of
\* the other.
DifferentPaths ==
  Footprint(last.pre, procs[1].rq) \cap Footprint(last.pre, procs[2].rq) = {}

\* The two requests work on unrelated paths: no path of one is a path of the
\* other, lies below one or lies above one.
UnrelatedPaths ==
  \A p \in Footprint(last.pre, procs[1].rq), q \in Footprint(last.pre, procs[2].rq) :
    ~IsPrefix(p, q) /\ ~IsPrefix(q, p)

Makes(w) == w.rq.op \in {"create_directory", "rename", "copy", "move"}

\* q lies in the subtree that worker w renames or moves away.
OwnSource(w, q) == w.rq.op \in {"rename", "move"} /\ IsPrefix(w.rq.src, q)

\* The write of worker w left the node at q as it was.
KeptByWrite(w, q) == q \in DOMAIN w.post /\ w.post[q] = w.pre[q]

\* C20 as stated: no createDirectory, rename, copy or move replaces a node
\* that exists when it writes, also with another request in between its
\* reads and its write; two concurrent copies that succeed end on two
\* distinct paths, each with its source's content.
C20_Original ==
  procs # <<>> =>
    /\ \A i \in {1, 2} :
         (procs[i].pc = "done" /\ Makes(procs[i])) =>
           \A q \in DOMAIN procs[i].pre :
             ~OwnSource(procs[i], q) => KeptByWrite(procs[i], q)
    /\ (BothDone /\ procs[1].rq.op = "copy" /\ procs[2].rq.op = "copy"
          /\ procs[1].res = "ok" /\ procs[2].res = "ok" /\ ~procs[1].is_dir
          /\ ~procs[2].is_dir) =>
         /\ procs[1].target # procs[2].target
         /\ \A i \in {1, 2} :
              /\ Exists(fs, procs[i].target)
              /\ fs[procs[i].target] = last.pre[procs[i].rq.src]

\* C20: no createDirectory, rename, copy or move replaces a node that was
\* there when it made its reads, whatever another request does in between;
\* what it can replace is a node that appeared after its reads.
C20_SeenNodesNotReplaced ==
  procs # <<>> =>
    \A i \in {1, 2} :
      (procs[i].pc = "done" /\ Makes(procs[i])) =>
        \A q \in (DOMAIN procs[i].pre) \cap (DOMAIN procs[i].seen) :
          ~OwnSource(procs[i], q) => KeptByWrite(procs[i], q)

\* C20 witness: two copies of different files made their reads before
\* either wrote and generated the same name; the second write succeeded on
\* a path that held the first copy by then.
C20_Witness ==
  /\ BothDone
  /\ procs[1].rq.op = "copy" /\ procs[2].rq.op = "copy"
  /\ procs[1].rq.src # procs[2].rq.src
  /\ procs[1].seen = last.pre /\ procs[2].seen = last.pre
  /\ procs[1].res = "ok" /\ procs[2].res = "ok"
  /\ procs[1].target = procs[2].target
  /\ procs[1].target \notin DOMAIN procs[1].seen
  /\ procs[1].target \in DOMAIN procs[1].pre

(***************************************************************************)
(* The walk on trees with symbolic links.                                  *)
(***************************************************************************)
\* The generator is exhausted or has returned at the ceiling.
WalkOver == walk.todo = <<>> \/ walk.acc.returned

\* C21: on trees with symbolic links, cycles of them included, the walk
\* opens no directory through a link below the root, opens each real
\* directory at most once and yields each entry at most once, and it comes
\* to an end whatever the ceiling.
C21_WalkEndsOnLinkCycles ==
  /\ [](\A i, j \in 1..Len(walk.opened) :
          /\ walk.opened[i].real = Real(fs, walk.root) \o walk.opened[i].rel
          /\ walk.opened[i].real = walk.opened[j].real => i = j)
  /\ [](\A i, j \in 1..Len(walk.acc.out) :
          walk.acc.out[i].rel = walk.acc.out[j].rel => i = j)
  /\ <>WalkOver

\* C21 witness: a walk with the default ceiling is through; it opened two
\* directories and yielded, as a directory it did not open, a link that
\* leads back to the directory the walk started from.
C21_Witness ==
  /\ WalkOver /\ ~walk.acc.returned
  /\ walk.max_entries = DEFAULT_MAX_ENTRIES
  /\ Len(walk.opened) = 2
  /\ \E i \in 1..Len(walk.acc.out) :
       /\ walk.acc.out[i] = [rel |-> RelStr(<<NameAB, NameAB>>), kind |-> "directory"]
       /\ walk.root = Root
       /\ fs[<<NameAB, NameAB>>] = LinkNode(Root)
====
